---- MODULE Spec2Model ----
(***************************************************************************)
(* Model of src/streamlit_app.py: the pipeline that load_data runs on the  *)
(* table extracted from the monthly duty-schedule PDF                      *)
(*   process_table -> split_text -> melt_and_split -> filter_data          *)
(*   -> categorize_data -> add_missing_rows -> date resolution.            *)
(*                                                                         *)
(* A text is a sequence of atoms.  An atom is one character ("(", ")",     *)
(* "~", a digit, a blank, a line break) or a run of characters that no     *)
(* pattern of the program can match partially (a facility name fragment,   *)
(* an hour such as "17:30").  The hour 08:30 is the two atoms "0","8:30",  *)
(* so that the substring replacement of "8:30" sees it the way Python's    *)
(* str.replace does.                                                       *)
(***************************************************************************)
EXTENDS Integers, Sequences, FiniteSets, TLC

VARIABLES pc, table, yyyymm, long, days, slots, kept, typed, filled, out

vars == <<pc, table, yyyymm, long, days, slots, kept, typed, filled, out>>

----------------------------------------------------------------------------
(* Atoms and the literals of the source *)

NL == "\n"
SP == " "
TILDE == "~"
WAVE == "~w"                \* the wave dash ～ (U+FF5E)
YOKU == "yoku"              \* the next-day marker 翌
SHIKA == "shika"            \* the dental marker 歯科
Kenketsu == <<"Kenketsu">>            \* 献血
ShiminKaikanMae == <<"ShiminKaikanMae">>   \* 市民会館前
NaN == <<"<NaN>">>          \* a missing value (None / NaN) in a text column
NoLabel == "<None>"         \* a header cell that is None
Sun == "Sun"                \* the header label 日

DigitAtoms == {"0", "1", "2", "3"}

DigitVal(a) == CASE a = "0" -> 0 [] a = "1" -> 1 [] a = "2" -> 2 [] OTHER -> 3

IsSpace(a) == a \in {SP, NL}

T0830 == <<"0", "8:30">>
SlashJoin == <<SP, "/", SP>>
TimePed == <<"09:00", WAVE, "12:00">> \o SlashJoin \o <<"14:00", WAVE, "17:00">>
TimeIsland == <<"09:00", WAVE, "17:00">>
TimeAllDayRaw == <<"8:30", WAVE, YOKU, "8:30">>
TimeDay == T0830 \o <<WAVE, "17:30">>
TimeNight == <<"17:30", WAVE, YOKU>> \o T0830
TimeKenritsu == T0830 \o <<WAVE, "17:15">> \o SlashJoin \o <<"22:30", WAVE, YOKU>> \o T0830
TimeCentral == <<"17:15", WAVE, "22:30">>
TimeGap == <<"09:00", WAVE, "17:30">>

Ishikai == <<"IshikaiShiminByoin">>   \* 医師会市民病院
Kenritsu == <<"KenritsuImabariByoin">>  \* 県立今治病院
Central == <<"ImabariCentralClinic">>   \* 今治セントラルクリニック

\* しのざき整形外科, はかた外科胃腸科, 喜多嶋診療所, 斎藤クリニック, 大三島中央病院,
\* 片山医院, 有津むらかみクリニック
island ==
  { <<"ShinozakiSeikeigeka">>, <<"HakataGekaIchoka">>, <<"KitajimaShinryojo">>,
    <<"SaitoClinic">>, <<"OmishimaChuoByoin">>, <<"KatayamaIin">>,
    <<"AritsuMurakamiClinic">> }

\* あおい小児科, 丹こどもクリニック, まつうらバンビクリニック, みぶ小児科, 医師会市民病院,
\* 県立今治病院, 済生会今治病院
pediatrics ==
  { <<"AoiShonika">>, <<"TanKodomoClinic">>, <<"MatsuuraBambiClinic">>,
    <<"MibuShonika">>, Ishikai, Kenritsu, <<"SaiseikaiImabariByoin">> }

----------------------------------------------------------------------------
(* String operations of Python / pandas, on atom sequences *)

\* str.replace(pat, rep), regex=False: every non-overlapping occurrence, left to right
RECURSIVE StrReplace(_, _, _)
StrReplace(s, pat, rep) ==
  IF Len(s) < Len(pat) THEN s
  ELSE IF SubSeq(s, 1, Len(pat)) = pat
       THEN rep \o StrReplace(SubSeq(s, Len(pat) + 1, Len(s)), pat, rep)
       ELSE <<Head(s)>> \o StrReplace(Tail(s), pat, rep)

RECURSIVE LStrip(_, _)
LStrip(s, chars) ==
  IF s # <<>> /\ Head(s) \in chars THEN LStrip(Tail(s), chars) ELSE s

RECURSIVE RStrip(_, _)
RStrip(s, chars) ==
  IF s # <<>> /\ s[Len(s)] \in chars THEN RStrip(SubSeq(s, 1, Len(s) - 1), chars) ELSE s

\* str.strip(chars)
StrStrip(s, chars) == RStrip(LStrip(s, chars), chars)

\* str.contains(a) for a one-atom pattern
StrContains(s, a) == \E i \in 1..Len(s) : s[i] = a

\* str.split() with no separator: runs of whitespace separate, no empty token
RECURSIVE SplitWS(_, _)
SplitWS(s, cur) ==
  IF s = <<>> THEN (IF cur = <<>> THEN <<>> ELSE <<cur>>)
  ELSE IF IsSpace(Head(s))
       THEN (IF cur = <<>> THEN <<>> ELSE <<cur>>) \o SplitWS(Tail(s), <<>>)
       ELSE SplitWS(Tail(s), Append(cur, Head(s)))

\* str.split("(?<!\))\("): at every "(" that no ")" immediately precedes
IsSplitPoint(t, i) == t[i] = "(" /\ (i = 1 \/ t[i - 1] # ")")

RECURSIVE SplitParenAt(_, _, _)
SplitParenAt(t, i, cur) ==
  IF i > Len(t) THEN <<cur>>
  ELSE IF IsSplitPoint(t, i)
       THEN <<cur>> \o SplitParenAt(t, i + 1, <<>>)
       ELSE SplitParenAt(t, i + 1, Append(cur, t[i]))

SplitParen(t) == SplitParenAt(t, 1, <<>>)

\* pd.to_numeric(errors="coerce") on a token: a digit string parses, anything else is NaN
IsNumeric(t) == t # <<>> /\ \A i \in 1..Len(t) : t[i] \in DigitAtoms

RECURSIVE ToNumeric(_)
ToNumeric(t) ==
  IF t = <<>> THEN 0 ELSE 10 * ToNumeric(SubSeq(t, 1, Len(t) - 1)) + DigitVal(t[Len(t)])

RECURSIVE SeqMax(_)
SeqMax(s) ==
  IF s = <<>> THEN 0
  ELSE LET m == SeqMax(Tail(s)) IN IF Head(s) > m THEN Head(s) ELSE m

RECURSIVE Concat(_)
Concat(ss) == IF ss = <<>> THEN <<>> ELSE Head(ss) \o Concat(Tail(ss))

\* The order of sort_values(by=["day", "variable"]) and, with byType, of
\* sort_values(by=["day", "variable", "type"])
KeyBefore(r, s, byType) ==
  \/ r.day < s.day
  \/ r.day = s.day /\ r.variable < s.variable
  \/ byType /\ r.day = s.day /\ r.variable = s.variable /\ r.type < s.type

\* sort_values is stable for several keys: a row goes behind the rows of equal key
RECURSIVE InsertSorted(_, _, _)
InsertSorted(r, s, byType) ==
  IF s = <<>> THEN <<r>>
  ELSE IF KeyBefore(r, Head(s), byType) THEN <<r>> \o s
       ELSE <<Head(s)>> \o InsertSorted(r, Tail(s), byType)

RECURSIVE SortValues(_, _)
SortValues(df, byType) ==
  IF df = <<>> THEN <<>>
  ELSE InsertSorted(df[Len(df)], SortValues(SubSeq(df, 1, Len(df) - 1), byType), byType)

----------------------------------------------------------------------------
(* process_table *)

NormalizeText(text) ==
  LET a == StrReplace(text, <<TILDE>>, <<WAVE>>)
      b == StrReplace(a, <<SP>>, <<>>)
      c == StrStrip(b, {SP, NL})
      d == StrReplace(c, <<NL, "(">>, <<"(">>)
  IN  IF text = <<>> THEN NaN ELSE d

WeekLabel(h) == IF h = NoLabel THEN Sun ELSE h

\* StackRow with column 0 taken as the index of the frame and not stacked
StackRowSkipFirst(header, row, r) ==
  Concat([c \in 1..(Len(row) - 1) |->
            IF row[c + 1] = NaN THEN <<>>
            ELSE <<[number |-> r, week |-> WeekLabel(header[c + 1]),
                    text |-> NormalizeText(row[c + 1])]>>])

\* df.stack(): one row per (data row, column), every column, missing cells left out
StackRow(header, row, r) ==
  Concat([c \in 1..Len(row) |->
            IF row[c] = NaN THEN <<>>
            ELSE <<[number |-> r, week |-> WeekLabel(header[c]),
                    text |-> NormalizeText(row[c])]>>])

process_table(t) ==
  LET stacked == Concat([r \in 1..(Len(t) - 1) |-> StackRow(t[1], t[r + 1], r - 1)])
      notna(x) == x.text # NaN
  IN  SelectSeq(stacked, notna)

----------------------------------------------------------------------------
(* split_text *)

Tokens(text) == SplitWS(text, <<>>)

\* the number of columns of df["text"].str.split(expand=True)
TokenColumns(df) == SeqMax([i \in 1..Len(df) |-> Len(Tokens(df[i].text))])

\* rename(columns={0: "day"}) finds no column 0: df["day"] raises KeyError
SplitTextFails(df) == TokenColumns(df) = 0

\* the columns 1, 2, ... of the split, None where the row has fewer tokens
SlotColumns(toks, k) == [v \in 1..(k - 1) |-> IF v + 1 <= Len(toks) THEN toks[v + 1] ELSE NaN]

split_text(df) ==
  LET k == TokenColumns(df)
      parses(x) == Tokens(x.text) # <<>> /\ IsNumeric(Tokens(x.text)[1])
      row(x) == [day |-> ToNumeric(Tokens(x.text)[1]), week |-> x.week,
                 cols |-> SlotColumns(Tokens(x.text), k)]
      numeric == SelectSeq(df, parses)
  IN  [i \in 1..Len(numeric) |-> row(numeric[i])]

----------------------------------------------------------------------------
(* melt_and_split *)

\* pd.melt(id_vars=["day", "week"]): column by column, the rows in order
Melt(df) ==
  LET k == IF df = <<>> THEN 0 ELSE Len(df[1].cols)
  IN  Concat([v \in 1..k |->
                [i \in 1..Len(df) |->
                   [day |-> df[i].day, week |-> df[i].week, variable |-> v,
                    value |-> df[i].cols[v]]]])

Melted(df) ==
  LET notna(x) == x.value # NaN
  IN  SortValues(SelectSeq(Melt(df), notna), FALSE)

\* the number of columns of df["value"].str.split(..., expand=True)
PartColumns(m) == SeqMax([i \in 1..Len(m) |-> Len(SplitParen(m[i].value))])

\* df[["name", "time"]] = <a frame of other than two columns> raises ValueError
MeltAndSplitFails(df) == PartColumns(Melted(df)) # 2

TimeOf(parts) ==
  IF Len(parts) < 2 THEN NaN
  ELSE StrReplace(StrStrip(parts[2], {"(", ")"}), <<")", "(">>, SlashJoin)

melt_and_split(df) ==
  LET m == Melted(df)
  IN  [i \in 1..Len(m) |->
         [day |-> m[i].day, week |-> m[i].week, variable |-> m[i].variable,
          name |-> SplitParen(m[i].value)[1], time |-> TimeOf(SplitParen(m[i].value))]]

----------------------------------------------------------------------------
(* filter_data *)

\* Dropped with the dental test an equality instead of str.contains
DroppedExactDental(x) ==
  \/ x.week = Sun /\ x.name = <<SHIKA>>
  \/ x.name = Kenketsu \/ x.name = ShiminKaikanMae

Dropped(x) ==
  \/ x.week = Sun /\ StrContains(x.name, SHIKA)
  \/ x.name = Kenketsu \/ x.name = ShiminKaikanMae

filter_data(df) ==
  LET keep(x) == ~Dropped(x)
  IN  SelectSeq(df, keep)

----------------------------------------------------------------------------
(* categorize_data: the masks of lines 77-105, in their order, on one row *)

\* FallbackType with the slot index taken as 0-based
FallbackTypeZeroBased(time, v, t) == IF time = NaN /\ v = 0 THEN 0 ELSE t

\* line 86: the all-day fallback of a slot-1 row that still has no time
FallbackType(time, v, t) == IF time = NaN /\ v = 1 THEN 0 ELSE t

Categorize(x) ==
  LET v == x.variable
      t1 == 8
      t2 == IF x.name \in island THEN 9 ELSE t1
      t3 == IF v > 1 /\ x.name \in pediatrics
               /\ ~StrContains(IF x.time = NaN THEN <<>> ELSE x.time, YOKU)
            THEN 7 ELSE t2
      time1 == IF x.time = NaN /\ t3 = 7 THEN TimePed ELSE x.time
      time2 == IF time1 = NaN /\ t3 = 9 THEN TimeIsland ELSE time1
      t4 == FallbackType(time2, v, t3)
      time3 == IF t4 = 0 THEN TimeAllDayRaw ELSE time2
      time4 == IF time3 = NaN THEN NaN ELSE StrReplace(time3, <<"8:30">>, T0830)
      t5 == IF v = 1 /\ t4 = 8 /\ time4 = TimeDay THEN 1 ELSE t4
      t6 == IF v = 2 /\ t5 = 8 /\ time4 = TimeNight THEN 2 ELSE t5
      t7 == IF v = 1 /\ t6 = 8 /\ time4 = TimeKenritsu /\ x.name = Kenritsu THEN 3 ELSE t6
      t8 == IF v = 2 /\ t7 = 8 /\ time4 = TimeCentral /\ x.name = Central THEN 4 ELSE t7
  IN  [day |-> x.day, week |-> x.week, variable |-> v, name |-> x.name,
       time |-> time4, type |-> t8]

categorize_data(df) == [i \in 1..Len(df) |-> Categorize(df[i])]

----------------------------------------------------------------------------
(* add_missing_rows *)

FilteredDays(df) ==
  {df[i].day : i \in {j \in 1..Len(df) :
      df[j].week = Sun /\ df[j].variable = 1 /\ df[j].name = Ishikai /\ df[j].type = 0}}

\* the day of every slot-2 type-9 row of such a day, one entry per row
IslandDays(df) ==
  LET fd == FilteredDays(df)
      hit(x) == x.day \in fd /\ x.variable = 2 /\ x.type = 9
      rows == SelectSeq(df, hit)
  IN  [i \in 1..Len(rows) |-> rows[i].day]

\* NewRows with the first row's type code mistyped
NewRowsTypo(day) ==
  << [day |-> day, week |-> Sun, variable |-> 1, name |-> Ishikai,
      time |-> TimeGap, type |-> 5],
     [day |-> day, week |-> Sun, variable |-> 1, name |-> Ishikai,
      time |-> TimePed, type |-> 7] >>

NewRows(day) ==
  << [day |-> day, week |-> Sun, variable |-> 1, name |-> Ishikai,
      time |-> TimeGap, type |-> 6],
     [day |-> day, week |-> Sun, variable |-> 1, name |-> Ishikai,
      time |-> TimePed, type |-> 7] >>

\* add_missing_rows without the final sort_values
AddMissingRowsUnsorted(df) ==
  LET isl == IslandDays(df)
  IN  df \o Concat([i \in 1..Len(isl) |-> NewRows(isl[i])])

add_missing_rows(df) ==
  LET isl == IslandDays(df)
      new_rows == Concat([i \in 1..Len(isl) |-> NewRows(isl[i])])
  IN  SortValues(df \o new_rows, TRUE)

----------------------------------------------------------------------------
(* load_data, lines 158-160: the date of a row *)

IsLeap(y) == (y % 4 = 0 /\ y % 100 # 0) \/ y % 400 = 0

DaysInMonth(y, m) ==
  IF m = 2 THEN (IF IsLeap(y) THEN 29 ELSE 28)
  ELSE IF m \in {4, 6, 9, 11} THEN 30 ELSE 31

\* Timestamp + Timedelta(n days): calendar arithmetic, into the next months
\* (or for n < 0 the previous ones)
RECURSIVE AddDays(_, _)
AddDays(d, n) ==
  IF d.d + n > DaysInMonth(d.y, d.m)
  THEN AddDays([y |-> IF d.m = 12 THEN d.y + 1 ELSE d.y,
                m |-> IF d.m = 12 THEN 1 ELSE d.m + 1, d |-> 1],
               n - (DaysInMonth(d.y, d.m) - d.d + 1))
  ELSE IF d.d + n < 1
  THEN LET py == IF d.m = 1 THEN d.y - 1 ELSE d.y
           pm == IF d.m = 1 THEN 12 ELSE d.m - 1
       IN  AddDays([y |-> py, m |-> pm, d |-> DaysInMonth(py, pm)], n + d.d)
  ELSE [y |-> d.y, m |-> d.m, d |-> d.d + n]

DateOf(ym, day) == AddDays([y |-> ym.y, m |-> ym.m, d |-> 1], day - 1)

ResolveDates(df, ym) ==
  [i \in 1..Len(df) |->
     [date |-> DateOf(ym, df[i].day), name |-> df[i].name, type |-> df[i].type,
      time |-> df[i].time]]

----------------------------------------------------------------------------
(* The tables and month contexts the pipeline is run on *)

MaxFilled == 2

WeekHeader == <<"Mon", "Tue", "Wed", "Thu", "Fri", "Sat", Sun>>   \* 月 火 水 木 金 土 日

\* the header rows: the first header cell is blank or missing
Headers == {<<"">> \o WeekHeader, <<NoLabel>> \o WeekHeader}

\* the cells that may hold text, <<data row, column>>; every other cell is ""
FillCells == {<<1, 1>>, <<1, 2>>, <<1, 8>>, <<2, 2>>}

P(time) == <<"(">> \o time \o <<")">>

CellPool ==
  { NaN,
    <<"1">>,
    \* 1 A病院(08:30～17:30) B病院(17:30～翌08:30), blanks between the tokens
    <<"1", SP, "AByoin">> \o P(<<"0", "8:30", WAVE, "17:30">>)
       \o <<SP, "BByoin">> \o P(<<"17:30", WAVE, YOKU, "0", "8:30">>),
    \* the same with line breaks between the tokens
    <<"1", NL, "AByoin">> \o P(<<"0", "8:30", WAVE, "17:30">>)
       \o <<NL, "BByoin">> \o P(<<"17:30", WAVE, YOKU, "0", "8:30">>),
    \* the same with the hours printed 8:30
    <<"1", NL, "AByoin">> \o P(<<"8:30", WAVE, "17:30">>)
       \o <<NL, "BByoin">> \o P(<<"17:30", WAVE, YOKU, "8:30">>),
    \* 2 / 医師会市民病院 / 片山医院: no hours printed
    <<"2", NL, "IshikaiShiminByoin", NL, "KatayamaIin">>,
    \* 2 / 医師会市民病院 / 片山医院(09:00～17:00)
    <<"2", NL, "IshikaiShiminByoin", NL, "KatayamaIin">> \o P(<<"09:00", WAVE, "17:00">>),
    \* 3 / 歯科医院(09:00～12:00) / C医院
    <<"3", NL, SHIKA, "Iin">> \o P(<<"09:00", WAVE, "12:00">>) \o <<NL, "CIin">>,
    \* 3 / 献血(10:00～17:00) / あおい小児科
    <<"3", NL, "Kenketsu">> \o P(<<"10:00", WAVE, "17:00">>) \o <<NL, "AoiShonika">>,
    \* 31 / 片山医院 / 県立今治病院(17:30~翌8:30), with the ASCII tilde
    <<"3", "1", NL, "KatayamaIin", NL, "KenritsuImabariByoin">>
       \o P(<<"17:30", TILDE, YOKU, "8:30">>),
    \* 10 / 県立今治病院(8:30～17:15)(22:30～翌8:30) / 今治セントラルクリニック / (17:15～22:30)
    <<"1", "0", NL, "KenritsuImabariByoin">> \o P(<<"8:30", WAVE, "17:15">>)
       \o P(<<"22:30", WAVE, YOKU, "8:30">>)
       \o <<NL, "ImabariCentralClinic", NL>> \o P(<<"17:15", WAVE, "22:30">>),
    \* a legend cell, no day: 救急 / A病院
    <<"Kyukyu", NL, "AByoin">>,
    \* 2 / A病院(内科)外科(09:00～12:00): two opening parentheses that split
    <<"2", NL, "AByoin">> \o P(<<"Naika">>) \o <<"Geka">> \o P(<<"09:00", WAVE, "12:00">>) }

Months == {[y |-> 2024, m |-> 6], [y |-> 2024, m |-> 2]}

Cols == 1..(Len(WeekHeader) + 1)

\* the data rows of a table: up to the last one that holds text, at least one
LastRow(f) ==
  IF DOMAIN f = {} THEN 1
  ELSE CHOOSE n \in {p[1] : p \in DOMAIN f} : \A q \in DOMAIN f : q[1] <= n

\* pdfplumber's table: the header row, then the data rows
MakeTable(h, f) ==
  <<h>> \o [r \in 1..LastRow(f) |->
             [c \in Cols |-> IF <<r, c>> \in DOMAIN f THEN f[<<r, c>>] ELSE <<>>]]

Tables ==
  UNION { UNION { {MakeTable(h, f) : f \in [S -> CellPool]} : h \in Headers }
          : S \in {T \in SUBSET FillCells : Cardinality(T) <= MaxFilled} }

----------------------------------------------------------------------------
(* load_data as a state machine: one action per stage *)

Init ==
  /\ pc = "process_table"
  /\ table \in Tables
  /\ yyyymm \in Months
  /\ long = <<>> /\ days = <<>> /\ slots = <<>> /\ kept = <<>>
  /\ typed = <<>> /\ filled = <<>> /\ out = <<>>

ProcessTable ==
  /\ pc = "process_table"
  /\ long' = process_table(table)
  /\ pc' = "split_text"
  /\ UNCHANGED <<table, yyyymm, days, slots, kept, typed, filled, out>>

SplitText ==
  /\ pc = "split_text"
  /\ IF SplitTextFails(long)
     THEN pc' = "failed" /\ days' = days
     ELSE pc' = "melt_and_split" /\ days' = split_text(long)
  /\ UNCHANGED <<table, yyyymm, long, slots, kept, typed, filled, out>>

MeltAndSplit ==
  /\ pc = "melt_and_split"
  /\ IF MeltAndSplitFails(days)
     THEN pc' = "failed" /\ slots' = slots
     ELSE pc' = "filter_data" /\ slots' = melt_and_split(days)
  /\ UNCHANGED <<table, yyyymm, long, days, kept, typed, filled, out>>

FilterData ==
  /\ pc = "filter_data"
  /\ kept' = filter_data(slots)
  /\ pc' = "categorize_data"
  /\ UNCHANGED <<table, yyyymm, long, days, slots, typed, filled, out>>

CategorizeData ==
  /\ pc = "categorize_data"
  /\ typed' = categorize_data(kept)
  /\ pc' = "add_missing_rows"
  /\ UNCHANGED <<table, yyyymm, long, days, slots, kept, filled, out>>

AddMissingRows ==
  /\ pc = "add_missing_rows"
  /\ filled' = add_missing_rows(typed)
  /\ pc' = "dates"
  /\ UNCHANGED <<table, yyyymm, long, days, slots, kept, typed, out>>

Dates ==
  /\ pc = "dates"
  /\ out' = ResolveDates(filled, yyyymm)
  /\ pc' = "done"
  /\ UNCHANGED <<table, yyyymm, long, days, slots, kept, typed, filled>>

Next ==
  \/ ProcessTable \/ SplitText \/ MeltAndSplit \/ FilterData
  \/ CategorizeData \/ AddMissingRows \/ Dates

Spec == Init /\ [][Next]_vars

----------------------------------------------------------------------------
(* Properties *)

Terminated == pc \in {"done", "failed"}
Filtered == pc \in {"categorize_data", "add_missing_rows", "dates", "done"}
Categorized == pc \in {"add_missing_rows", "dates", "done"}
GapFilled == pc \in {"dates", "done"}

Count(df, Test(_)) == Len(SelectSeq(df, Test))

June2024 == [y |-> 2024, m |-> 6]

\* the grid of the scenario: header ["", 月 .. 日], one data row
\* ["1", "1 A病院(08:30～17:30) B病院(17:30～翌08:30)", "", "", "", "", "", ""]
ScenarioTable ==
  MakeTable(<<"">> \o WeekHeader,
            (<<1, 1>> :> <<"1">>) @@
            (<<1, 2>> :> (<<"1", SP, "AByoin">> \o P(<<"0", "8:30", WAVE, "17:30">>)
                           \o <<SP, "BByoin">> \o P(<<"17:30", WAVE, YOKU, "0", "8:30">>))))

\* C1: on the scenario grid with month context 2024-06 the pipeline ends with exactly
\* the two records (2024-06-01, A病院, 1, 08:30～17:30) and
\* (2024-06-01, B病院, 2, 17:30～翌08:30), in this order.
C1_ScenarioRecords ==
  (table = ScenarioTable /\ yyyymm = June2024 /\ Terminated) =>
    /\ pc = "done"
    /\ out = << [date |-> [y |-> 2024, m |-> 6, d |-> 1], name |-> <<"AByoin">>,
                 type |-> 1, time |-> TimeDay],
                [date |-> [y |-> 2024, m |-> 6, d |-> 1], name |-> <<"BByoin">>,
                 type |-> 2, time |-> TimeNight] >>

TypeCodes == {0, 1, 2, 3, 4, 6, 7, 8, 9}

\* C2: every record that categorize_data, add_missing_rows or the whole pipeline
\* produces has a type in {0, 1, 2, 3, 4, 6, 7, 8, 9}.
C2_TypeDomain ==
  /\ \A i \in 1..Len(typed) : typed[i].type \in TypeCodes
  /\ \A i \in 1..Len(filled) : filled[i].type \in TypeCodes
  /\ \A i \in 1..Len(out) : out[i].type \in TypeCodes

C2_Witness ==
  /\ pc = "done"
  /\ {0, 1, 2, 6, 7, 9} \subseteq {out[i].type : i \in 1..Len(out)}

\* a day of the gap: a Sunday slot-1 医師会市民病院 row of type 0 and a slot-2 row of type 9
GapDay(d) ==
  /\ \E i \in 1..Len(typed) :
        /\ typed[i].day = d /\ typed[i].week = Sun /\ typed[i].variable = 1
        /\ typed[i].name = Ishikai /\ typed[i].type = 0
  /\ \E i \in 1..Len(typed) :
        typed[i].day = d /\ typed[i].variable = 2 /\ typed[i].type = 9

RowsOfDay(df, d) ==
  LET onDay(x) == x.day = d
  IN  SelectSeq(df, onDay)

\* C3: add_missing_rows gives a day of the gap exactly two rows more than it had, the
\* type-6 row and the type-7 row of 医師会市民病院 at slot 1; it gives any other day no
\* row, and it keeps every input row.
C3_ExactlyTwoRowsPerGapDay ==
  GapFilled =>
    \A d \in {typed[i].day : i \in 1..Len(typed)} :
      LET before == RowsOfDay(typed, d)
          after == RowsOfDay(filled, d)
          isInput(x) == \E i \in 1..Len(before) : before[i] = x
          added == SelectSeq(after, LAMBDA x : ~isInput(x))
      IN  /\ \A i \in 1..Len(before) : \E j \in 1..Len(after) : after[j] = before[i]
          /\ Len(after) = Len(before) + (IF GapDay(d) THEN 2 ELSE 0)
          /\ GapDay(d) => {added[i].type : i \in 1..Len(added)} = {6, 7}

\* C4: the pipeline never ends with a record whose date lies outside the context
\* month: a day beyond the month's length makes it fail without output.
C4_NoDateOutsideMonth ==
  pc = "done" =>
    \A i \in 1..Len(out) : out[i].date.y = yyyymm.y /\ out[i].date.m = yyyymm.m

KeyLeq(r, s) ==
  \/ r.day < s.day
  \/ r.day = s.day /\ r.variable < s.variable
  \/ r.day = s.day /\ r.variable = s.variable /\ r.type <= s.type

DateLeq(a, b) ==
  \/ a.y < b.y
  \/ a.y = b.y /\ a.m < b.m
  \/ a.y = b.y /\ a.m = b.m /\ a.d <= b.d

\* a row made by add_missing_rows: type 6, or type 7 at slot 1 (line 80 gives 7 to
\* slots above 1 only)
Synthesized(x) == x.type = 6 \/ (x.type = 7 /\ x.variable = 1)

\* C5: the final sequence is sorted ascending by (day, slotIndex, type); the output
\* dates are non-decreasing; a synthesized row comes after the type-0 row of its day
\* and slot.
C5_Sorted ==
  /\ GapFilled =>
       /\ \A i \in 1..(Len(filled) - 1) : KeyLeq(filled[i], filled[i + 1])
       /\ \A i \in 1..Len(filled) :
             Synthesized(filled[i]) =>
               \E j \in 1..(i - 1) :
                 /\ filled[j].day = filled[i].day /\ filled[j].variable = 1
                 /\ filled[j].type = 0
  /\ pc = "done" =>
       /\ Len(out) = Len(filled)
       /\ \A i \in 1..(Len(out) - 1) : DateLeq(out[i].date, out[i + 1].date)

C5_Witness ==
  /\ pc = "done"
  /\ \E i \in 1..Len(filled) : filled[i].type = 6
  /\ \E i \in 1..Len(filled) : filled[i].day > 2
  /\ \E i \in 1..(Len(filled) - 1) : Synthesized(filled[i])

\* Filter as the specification states it: a dental name in a Sunday column, or one of the
\* two administrative labels
IsDentalOnSunday(x) == x.week = Sun /\ StrContains(x.name, SHIKA)
IsAdminLabel(x) == x.name \in {Kenketsu, ShiminKaikanMae}

\* the slot tokens of the cells that start with a day, each with its column's label
TokensOfCell(x) ==
  LET toks == Tokens(x.text)
  IN  IF toks # <<>> /\ IsNumeric(toks[1])
      THEN [v \in 1..(Len(toks) - 1) |->
              [week |-> x.week, name |-> SplitParen(toks[v + 1])[1]]]
      ELSE <<>>

SlotTokens == Concat([i \in 1..Len(long) |-> TokensOfCell(long[i])])

SurvivingTokens == SelectSeq(SlotTokens, LAMBDA x : ~IsDentalOnSunday(x) /\ ~IsAdminLabel(x))

\* the output records that add_missing_rows did not make
SourcedRecords ==
  LET idx == [i \in 1..Len(out) |-> i]
      sourced == SelectSeq(idx, LAMBDA i : ~Synthesized(filled[i]))
  IN  [k \in 1..Len(sourced) |-> out[sourced[k]]]

\* C6: when the pipeline has run, the slot tokens that Filter does not remove and the
\* output records that are not synthesized correspond one to one, name by name.
C6_Conservation ==
  Terminated =>
    /\ Len(SourcedRecords) = Len(SurvivingTokens)
    /\ \A n \in {SurvivingTokens[i].name : i \in 1..Len(SurvivingTokens)} :
          Count(SurvivingTokens, LAMBDA x : x.name = n)
            = Count(SourcedRecords, LAMBDA x : x.name = n)

\* the cells of the table that hold text, as <<data row, column>>
TextCells ==
  {p \in (1..(Len(table) - 1)) \X Cols : table[p[1] + 1][p[2]] \notin {<<>>, NaN}}

\* the rows of slots that Filter keeps, by position
KeptIdx == {i \in 1..Len(slots) : ~IsDentalOnSunday(slots[i]) /\ ~IsAdminLabel(slots[i])}

FilterKeepsTheRest ==
  /\ Len(kept) = Cardinality(KeptIdx)
  /\ \A i \in KeptIdx : kept[Cardinality({j \in KeptIdx : j <= i})] = slots[i]

AllPadded(t) == \A j \in 1..Len(t) : t[j] = "8:30" => (j > 1 /\ t[j - 1] = "0")

\* C8: categorize_data leaves a time in which every 8:30 is written 08:30 unchanged; a
\* slot-1 row that is not an island facility and is printed 08:30～17:30 ends with
\* type 1, a slot-2 row printed 17:30～翌08:30 with type 2.
C8_PaddedTimeUnchanged ==
  Categorized =>
    \A i \in 1..Len(kept) :
      (kept[i].time # NaN /\ AllPadded(kept[i].time)) =>
        /\ typed[i].time = kept[i].time
        /\ (kept[i].variable = 1 /\ kept[i].name \notin island /\ kept[i].time = TimeDay)
             => typed[i].type = 1
        /\ (kept[i].variable = 2 /\ kept[i].name \notin island /\ kept[i].time = TimeNight)
             => typed[i].type = 2

TimeAllDay == T0830 \o <<WAVE, YOKU>> \o T0830

\* C9 as stated: every slot-1 row that enters categorize_data without a time ends with
\* type 0 and time 08:30～翌08:30; no row of a slot above 1 has type 0.
C9_FallbackAlways ==
  Categorized =>
    \A i \in 1..Len(kept) :
      /\ (kept[i].variable = 1 /\ kept[i].time = NaN) =>
           (typed[i].type = 0 /\ typed[i].time = TimeAllDay)
      /\ kept[i].variable > 1 => typed[i].type # 0

\* C9 amended: a slot-1 row without a time that is not an island facility ends with
\* type 0 and time 08:30～翌08:30; an island facility at slot 1 without a time ends with
\* type 9 and time 09:00～17:00; no row of a slot above 1 has type 0.
C9_FallbackUnlessIsland ==
  Categorized =>
    /\ Len(typed) = Len(kept)
    /\ \A i \in 1..Len(kept) :
         /\ (kept[i].variable = 1 /\ kept[i].time = NaN /\ kept[i].name \notin island) =>
              (typed[i].type = 0 /\ typed[i].time = TimeAllDay)
         /\ (kept[i].variable = 1 /\ kept[i].time = NaN /\ kept[i].name \in island) =>
              (typed[i].type = 9 /\ typed[i].time = TimeIsland)
         /\ kept[i].variable > 1 => typed[i].type # 0

C9_Witness ==
  /\ Categorized
  /\ \E i \in 1..Len(kept) :
        kept[i].variable = 1 /\ kept[i].time = NaN /\ kept[i].name \notin island
  /\ \E i \in 1..Len(kept) :
        kept[i].variable = 1 /\ kept[i].time = NaN /\ kept[i].name \in island
  /\ \E i \in 1..Len(kept) : kept[i].variable > 1 /\ kept[i].time = NaN

\* C10 as stated: no output record comes from a cell of column 0, so a table whose
\* other columns hold no text yields no record.
C10_NoRecordFromColumn0 ==
  (pc = "done" /\ \A p \in TextCells : p[2] = 1) => out = <<>>

\* C10 amended: process_table emits one LongRow for every cell that holds text, in
\* every column, column 0 included; "number" is the position of the data row.
C10_EveryColumnStacked ==
  pc # "process_table" =>
    /\ Len(long) = Cardinality(TextCells)
    /\ \A r \in 1..(Len(table) - 1) :
          Count(long, LAMBDA x : x.number = r - 1)
            = Cardinality({p \in TextCells : p[1] = r})

C10_Witness ==
  /\ pc = "done"
  /\ TextCells # {}
  /\ \A p \in TextCells : p[2] = 1
  /\ out # <<>>

====
